---- MODULE Spec2Model ----
(***************************************************************************)
(* Wire protocol and streaming framing layer of the ballgame server:       *)
(* PacketBuf (src/src/protocol.rs) reassembles envelopes out of chunks of  *)
(* a byte stream, PacketProtocol encodes and decodes envelopes.            *)
(*                                                                         *)
(* Bytes are naturals in 0..255, a byte string is a sequence of bytes.     *)
(* A Rust panic (an out-of-range slice index, a failing unwrap) is the     *)
(* outcome "Panic"; usize is 64 bits wide, so 9 + content_length never     *)
(* overflows.  TLC's integers are 32 bits wide and signed: every            *)
(* u32 the model converts is below 2^31 (the inputs never set the top bit  *)
(* of a field's first byte), and a content is far shorter than 2^32 bytes, *)
(* so content.len() as u32 does not truncate.                              *)
(***************************************************************************)
EXTENDS Integers, Sequences, FiniteSets, TLC

VARIABLES
    envs,       \* the envelopes the peer sent on this connection, in order
    stream,     \* their bytes on the wire
    pos,        \* number of bytes of stream already handed to process
    buf,        \* PacketBuf.buf
    state,      \* PacketBuf.state: "Header" or "Content"
    emitted,    \* the envelopes process returned so far (Some), in order
    last,       \* outcome of the last process call: "Init", "None", "Some", "Panic"
    sawEmpty,   \* TRUE once a zero-length chunk was handed to process
    bytewise,   \* TRUE while every process call so far was handed exactly one byte
    cin,        \* codec: the input, a packet to encode or a byte slice to decode
    cwire,      \* codec: the result of serialize, or the received slice
    craw,       \* codec: the result of PacketProtocol::try_from on the slice
    cout,       \* codec: the result of deserialize
    cstage,     \* codec: "start", "wire", "raw", "done"; "idle" when unused
    cback,      \* codec: the result of serialize on the envelope try_from returned
    conns,      \* two connections: for each its stream, the PacketBuf, the chunks fed
    ships,      \* Game.ships
    players,    \* Game.players, each with the bytes its stream still holds
    ticks,      \* number of iterate_game calls so far
    sent,       \* the last packet send_server_packet returned
    gameLast    \* outcome of the last Game call: "Init", "Ok", "Panic"

reassembler == <<envs, stream, pos, buf, state, emitted, last, sawEmpty, bytewise>>
codec == <<cin, cwire, craw, cout, cstage, cback>>
game == <<ships, players, ticks, sent, gameLast>>
vars == <<envs, stream, pos, buf, state, emitted, last, sawEmpty, bytewise,
          cin, cwire, craw, cout, cstage, cback, conns,
          ships, players, ticks, sent, gameLast>>

-----------------------------------------------------------------------------
(* Bounds of the model *)

MaxEnvelopes == 2      \* envelopes on one connection
MaxContent == 1        \* content bytes of one envelope on the stream
MaxCalls == 3          \* process calls on one of two connections
MaxPlayers == 2        \* players of a Game
MaxTicks == 2          \* iterate_game calls

(* Program constants *)

HEADER_LEN == 9
ZERO_PROTOCOL_ID == 0
JSON_PROTOCOL_ID == 1

-----------------------------------------------------------------------------
(* Integers and byte strings *)

u32_to_be_bytes(n) ==
    << (n \div 16777216) % 256, (n \div 65536) % 256, (n \div 256) % 256, n % 256 >>

u32_from_be_bytes(b) ==
    b[1] * 16777216 + b[2] * 65536 + b[3] * 256 + b[4]

\* bytes[from..to] of Rust, 0-based and half-open, for from <= to <= Len(bytes)
Slice(bytes, from, to) == SubSeq(bytes, from + 1, to)

RECURSIVE SeqsUpTo(_, _)
SeqsUpTo(S, n) ==
    IF n = 0 THEN { <<>> }
    ELSE LET shorter == SeqsUpTo(S, n - 1)
         IN  shorter \cup { Append(s, x) : s \in { t \in shorter : Len(t) = n - 1 }, x \in S }

-----------------------------------------------------------------------------
(* PacketProtocol::Raw and the results of the calls *)

Raw(id, protocol, content) ==
    [tag |-> "Raw", id |-> id, protocol |-> protocol, content |-> content]

NoValue == [tag |-> "None"]

Ok(v) == [kind |-> "Ok", val |-> v, err |-> ""]
Err(e) == [kind |-> "Err", val |-> NoValue, err |-> e]
Panic == [kind |-> "Panic", val |-> NoValue, err |-> ""]
NoResult == [kind |-> "NotRun", val |-> NoValue, err |-> ""]

\* TryFrom with `expected_length > content.len()` for the length test
TryFromAcceptsLonger(bytes) ==
    IF Len(bytes) < 9 THEN Panic
    ELSE LET content == Slice(bytes, 9, Len(bytes))
         IN  IF u32_from_be_bytes(Slice(bytes, 5, 9)) > Len(content)
             THEN Err("Length mismatch")
             ELSE Ok(Raw(u32_from_be_bytes(Slice(bytes, 0, 4)), bytes[5], content))

\* TryFrom<&[u8]>: each of bytes[0..4], bytes[4..5], bytes[5..9] and bytes[9..]
\* panics when the slice is shorter than its upper index; the try_into()? that
\* follows gets a slice of the right length and never fails.
TryFrom(bytes) ==
    IF Len(bytes) < 4 THEN Panic
    ELSE IF Len(bytes) < 5 THEN Panic
    ELSE IF Len(bytes) < 9 THEN Panic
    ELSE LET id == u32_from_be_bytes(Slice(bytes, 0, 4))
             protocol == bytes[5]
             expected_length == u32_from_be_bytes(Slice(bytes, 5, 9))
             content == Slice(bytes, 9, Len(bytes))
         IN  IF expected_length # Len(content)
             THEN Err("Length mismatch")
             ELSE Ok(Raw(id, protocol, content))

-----------------------------------------------------------------------------
(* Payload types.  A ClientPacket is [type, player_id, orientation,         *)
(* propulsor]; a MyMessage (main) is [type, a, b, c], its f32 field b held  *)
(* as the four big-endian bytes of its bit pattern and its String c as a    *)
(* sequence of ASCII codes.  A ServerPacket is [type, player_id, position,  *)
(* velocity, orientation, design, propulsor, hits], a Vector [x, y] of f32. *)

PacketTypes == {"ClientPacket", "ServerPacket", "MyMessage"}

\* Packet::id() with the ids of ClientPacket and ServerPacket exchanged
PacketIdExchanged(T) ==
    CASE T = "ClientPacket" -> 1
      [] T = "ServerPacket" -> 0
      [] T = "MyMessage" -> 123

\* Packet::id()
PacketId(T) ==
    CASE T = "ClientPacket" -> 0
      [] T = "ServerPacket" -> 1
      [] T = "MyMessage" -> 123

ClientPacket(player_id, orientation, propulsor) ==
    [type |-> "ClientPacket", player_id |-> player_id,
     orientation |-> orientation, propulsor |-> propulsor]

MyMessage(a, b, c) == [type |-> "MyMessage", a |-> a, b |-> b, c |-> c]

Vector(x, y) == [x |-> x, y |-> y]

ServerPacket(player_id, position, velocity, orientation, design, propulsor, hits) ==
    [type |-> "ServerPacket", player_id |-> player_id, position |-> position,
     velocity |-> velocity, orientation |-> orientation, design |-> design,
     propulsor |-> propulsor, hits |-> hits]

\* an f32 is finite unless its eight exponent bits are all ones
IsFinite(f) == ~((f[1] % 128) = 127 /\ f[2] >= 128)

-----------------------------------------------------------------------------
(* Encoding 0: bincode, big-endian, fixed-width integers *)

\* a u32 written without with_big_endian(): little-endian
BincodeU32LittleEndian(n) ==
    << n % 256, (n \div 256) % 256, (n \div 65536) % 256, (n \div 16777216) % 256 >>

BincodeU32(n) == u32_to_be_bytes(n)

\* a u64 below 2^32: the length prefix of a String
BincodeU64(n) == <<0, 0, 0, 0>> \o u32_to_be_bytes(n)

\* vector.rs gives Vector no Serialize or Deserialize; the wire layout of the
\* specification is used: x then y, each an f32 of 4 big-endian bytes
BincodeVector(v) == v.x \o v.y

\* the ServerPacket written with design and propulsor packed into one byte
BincodeSerializePacked(data) ==
    CASE data.type = "ClientPacket" ->
            BincodeU32(data.player_id) \o BincodeU32(data.orientation) \o << data.propulsor >>
      [] data.type = "MyMessage" ->
            << data.a >> \o data.b \o BincodeU64(Len(data.c)) \o data.c
      [] data.type = "ServerPacket" ->
            BincodeU32(data.player_id) \o BincodeVector(data.position)
                \o BincodeVector(data.velocity) \o BincodeU32(data.orientation)
                \o << (data.design * 16 + data.propulsor) % 256 >> \o BincodeU32(data.hits)

\* every field in declaration order, fixed width, no padding
BincodeSerialize(data) ==
    CASE data.type = "ClientPacket" ->
            BincodeU32(data.player_id) \o BincodeU32(data.orientation) \o << data.propulsor >>
      [] data.type = "MyMessage" ->
            << data.a >> \o data.b \o BincodeU64(Len(data.c)) \o data.c
      [] data.type = "ServerPacket" ->
            BincodeU32(data.player_id) \o BincodeVector(data.position)
                \o BincodeVector(data.velocity) \o BincodeU32(data.orientation)
                \o << data.design >> \o << data.propulsor >> \o BincodeU32(data.hits)

\* the ClientPacket decoder reading orientation before player_id
BincodeDeserializeClientSwapped(content) ==
    IF Len(content) # 9 THEN Err("bincode")
    ELSE Ok(ClientPacket(u32_from_be_bytes(Slice(content, 4, 8)),
                         u32_from_be_bytes(Slice(content, 0, 4)),
                         content[9]))

\* bincode::options() rejects trailing bytes; a short content is an
\* unexpected end of input
BincodeDeserializeClient(content) ==
    IF Len(content) < 9 THEN Err("bincode")
    ELSE IF Len(content) > 9 THEN Err("bincode")
    ELSE Ok(ClientPacket(u32_from_be_bytes(Slice(content, 0, 4)),
                         u32_from_be_bytes(Slice(content, 4, 8)),
                         content[9]))

BincodeDeserializeMyMessage(content) ==
    IF Len(content) < 13 THEN Err("bincode")
    ELSE IF Slice(content, 5, 9) # <<0, 0, 0, 0>> \/ content[10] >= 128
         THEN Err("bincode")              \* a length no content of the model has
    ELSE LET n == u32_from_be_bytes(Slice(content, 9, 13))
         IN  IF Len(content) - 13 # n THEN Err("bincode")
             ELSE IF \E i \in 14..Len(content) : content[i] >= 128
                  THEN Err("bincode")     \* the strings of the model are ASCII
             ELSE Ok(MyMessage(content[1], Slice(content, 1, 5),
                               Slice(content, 13, Len(content))))

BincodeDeserializeServer(content) ==
    IF Len(content) # 30 THEN Err("bincode")
    ELSE Ok(ServerPacket(u32_from_be_bytes(Slice(content, 0, 4)),
                         Vector(Slice(content, 4, 8), Slice(content, 8, 12)),
                         Vector(Slice(content, 12, 16), Slice(content, 16, 20)),
                         u32_from_be_bytes(Slice(content, 20, 24)),
                         content[25], content[26],
                         u32_from_be_bytes(Slice(content, 26, 30))))

BincodeDeserialize(T, content) ==
    CASE T = "ClientPacket" -> BincodeDeserializeClient(content)
      [] T = "MyMessage" -> BincodeDeserializeMyMessage(content)
      [] T = "ServerPacket" -> BincodeDeserializeServer(content)

-----------------------------------------------------------------------------
(* Encoding 1: serde_json.  Text is a sequence of ASCII codes.  The writer  *)
(* prints a struct as {"field":value,...} in declaration order, an integer  *)
(* in decimal, a String in quotes with " and \ escaped, a finite f32 as its *)
(* shortest decimal and a non-finite f32 as null.  The reader takes an      *)
(* object whose members are integers, decimals, strings or null, in any     *)
(* order and with white space between tokens; it ignores unknown fields and *)
(* rejects a duplicate or missing field, a value of the wrong type or out   *)
(* of range, and trailing characters.  Arrays, nested objects, exponents    *)
(* and escapes other than \" and \\ are outside the model: no input has     *)
(* them.                                                                    *)

KeyPlayerId == <<112, 108, 97, 121, 101, 114, 95, 105, 100>>
KeyOrientation == <<111, 114, 105, 101, 110, 116, 97, 116, 105, 111, 110>>
KeyPropulsor == <<112, 114, 111, 112, 117, 108, 115, 111, 114>>
KeyA == <<97>>
KeyB == <<98>>
KeyC == <<99>>
TextNull == <<110, 117, 108, 108>>

\* The f32 values of the model with the text serde_json (ryu) prints for the
\* finite ones: 0.0, 1.0, 5.122, -2.5; then NaN, +inf, -inf.
FloatTexts ==
    { <<<<0, 0, 0, 0>>, <<48, 46, 48>>>>,
      <<<<63, 128, 0, 0>>, <<49, 46, 48>>>>,
      <<<<64, 163, 231, 109>>, <<53, 46, 49, 50, 50>>>>,
      <<<<192, 32, 0, 0>>, <<45, 50, 46, 53>>>> }
NonFiniteFloats == { <<127, 192, 0, 0>>, <<127, 128, 0, 0>>, <<255, 128, 0, 0>> }
FiniteFloats == { ft[1] : ft \in FloatTexts }

RECURSIVE Decimal(_)
Decimal(n) == IF n < 10 THEN << 48 + n >> ELSE Append(Decimal(n \div 10), 48 + (n % 10))

JsonF32(f) ==
    IF IsFinite(f) THEN (CHOOSE ft \in FloatTexts : ft[1] = f)[2] ELSE TextNull

RECURSIVE JsonEscape(_)
JsonEscape(str) ==
    IF str = <<>> THEN <<>>
    ELSE (IF Head(str) \in {34, 92} THEN <<92, Head(str)>> ELSE << Head(str) >>)
             \o JsonEscape(Tail(str))

JsonString(str) == <<34>> \o JsonEscape(str) \o <<34>>

JsonMember(key, text) == <<34>> \o key \o <<34, 58>> \o text

\* serde_json::to_string(&data)
JsonToString(data) ==
    IF data.type = "ClientPacket"
    THEN <<123>> \o JsonMember(KeyPlayerId, Decimal(data.player_id))
           \o <<44>> \o JsonMember(KeyOrientation, Decimal(data.orientation))
           \o <<44>> \o JsonMember(KeyPropulsor, Decimal(data.propulsor)) \o <<125>>
    ELSE <<123>> \o JsonMember(KeyA, Decimal(data.a))
           \o <<44>> \o JsonMember(KeyB, JsonF32(data.b))
           \o <<44>> \o JsonMember(KeyC, JsonString(data.c)) \o <<125>>

Digits == 48..57
NumberChars == Digits \cup {45, 46}

RECURSIVE SkipWs(_, _)
SkipWs(s, i) == IF i <= Len(s) /\ s[i] \in {32, 9, 10, 13} THEN SkipWs(s, i + 1) ELSE i

ScanFail == [ok |-> FALSE, val |-> NoValue, next |-> 0]

\* the body of a string from position i, after its opening quote
RECURSIVE ScanString(_, _, _)
ScanString(s, i, acc) ==
    IF i > Len(s) THEN ScanFail
    ELSE IF s[i] = 34 THEN [ok |-> TRUE, val |-> [t |-> "str", text |-> acc], next |-> i + 1]
    ELSE IF s[i] = 92
         THEN IF i + 1 <= Len(s) /\ s[i + 1] \in {34, 92}
              THEN ScanString(s, i + 2, Append(acc, s[i + 1]))
              ELSE ScanFail
    ELSE IF s[i] < 32 THEN ScanFail
    ELSE ScanString(s, i + 1, Append(acc, s[i]))

RECURSIVE ScanNumber(_, _, _)
ScanNumber(s, i, acc) ==
    IF i <= Len(s) /\ s[i] \in NumberChars
    THEN ScanNumber(s, i + 1, Append(acc, s[i]))
    ELSE [ok |-> TRUE, val |-> [t |-> "num", text |-> acc], next |-> i]

ScanValue(s, i) ==
    IF i > Len(s) THEN ScanFail
    ELSE IF s[i] = 34 THEN ScanString(s, i + 1, <<>>)
    ELSE IF s[i] \in NumberChars THEN ScanNumber(s, i, <<>>)
    ELSE IF i + 3 <= Len(s) /\ SubSeq(s, i, i + 3) = TextNull
         THEN [ok |-> TRUE, val |-> [t |-> "null", text |-> <<>>], next |-> i + 4]
    ELSE ScanFail

\* the members of an object from position i, the start of a key; acc holds the
\* <<key, value>> pairs read so far
RECURSIVE ScanMembers(_, _, _)
ScanMembers(s, i, acc) ==
    IF i > Len(s) \/ s[i] # 34 THEN ScanFail
    ELSE LET k == ScanString(s, i + 1, <<>>)
         IN  IF ~k.ok THEN ScanFail
             ELSE LET c == SkipWs(s, k.next)
                  IN  IF c > Len(s) \/ s[c] # 58 THEN ScanFail
                      ELSE LET v == ScanValue(s, SkipWs(s, c + 1))
                           IN  IF ~v.ok THEN ScanFail
                               ELSE LET e == SkipWs(s, v.next)
                                        got == Append(acc, <<k.val.text, v.val>>)
                                    IN  IF e > Len(s) THEN ScanFail
                                        ELSE IF s[e] = 125
                                             THEN [ok |-> TRUE, val |-> got, next |-> e + 1]
                                        ELSE IF s[e] = 44
                                             THEN ScanMembers(s, SkipWs(s, e + 1), got)
                                        ELSE ScanFail

\* a whole text as one object: the sequence of its members, or failure
ScanObject(s) ==
    LET i == SkipWs(s, 1)
    IN  IF i > Len(s) \/ s[i] # 123 THEN ScanFail
        ELSE LET j == SkipWs(s, i + 1)
                 r == IF j <= Len(s) /\ s[j] = 125
                      THEN [ok |-> TRUE, val |-> <<>>, next |-> j + 1]
                      ELSE ScanMembers(s, j, <<>>)
             IN  IF r.ok /\ SkipWs(s, r.next) > Len(s) THEN r ELSE ScanFail

\* the values the members give a field, in order; a struct needs exactly one
\* (a missing field and a duplicate field are errors)
FieldValues(members, key) ==
    SelectSeq(members, LAMBDA m : m[1] = key)

RECURSIVE DigitsValue(_, _)
DigitsValue(text, acc) ==
    IF text = <<>> THEN acc ELSE DigitsValue(Tail(text), acc * 10 + (Head(text) - 48))

\* an unsigned integer no larger than max: digits only, no leading zero.  The
\* u32 fields are read with max = 2^31 - 1, the largest u32 of the model.
JsonUnsigned(vals, max) ==
    IF Len(vals) # 1 THEN Err("serde_json")
    ELSE LET v == vals[1][2]
         IN  IF v.t # "num" \/ v.text = <<>> \/ Len(v.text) > 10
                \/ (\E i \in 1..Len(v.text) : v.text[i] \notin Digits)
                \/ (Len(v.text) > 1 /\ v.text[1] = 48)
             THEN Err("serde_json")
             ELSE IF Len(v.text) = 10
                     /\ DigitsValue(SubSeq(v.text, 1, 9), 0) > max \div 10
                  THEN Err("serde_json")
             ELSE IF Len(v.text) = 10
                     /\ DigitsValue(SubSeq(v.text, 1, 9), 0) = max \div 10
                     /\ v.text[10] - 48 > max % 10
                  THEN Err("serde_json")
             ELSE IF DigitsValue(v.text, 0) > max THEN Err("serde_json")
             ELSE Ok(DigitsValue(v.text, 0))

JsonFloat(vals) ==
    IF Len(vals) # 1 THEN Err("serde_json")
    ELSE LET v == vals[1][2]
         IN  IF v.t = "num" /\ \E ft \in FloatTexts : ft[2] = v.text
             THEN Ok((CHOOSE ft \in FloatTexts : ft[2] = v.text)[1])
             ELSE Err("serde_json")       \* null is no f32

JsonStr(vals) ==
    IF Len(vals) # 1 THEN Err("serde_json")
    ELSE LET v == vals[1][2]
         IN  IF v.t = "str" THEN Ok(v.text) ELSE Err("serde_json")

JsonFromSliceClient(content) ==
    LET o == ScanObject(content)
    IN  IF ~o.ok THEN Err("serde_json")
        ELSE LET player_id == JsonUnsigned(FieldValues(o.val, KeyPlayerId), 2147483647)
                 orientation == JsonUnsigned(FieldValues(o.val, KeyOrientation), 2147483647)
                 propulsor == JsonUnsigned(FieldValues(o.val, KeyPropulsor), 255)
             IN  IF player_id.kind = "Ok" /\ orientation.kind = "Ok" /\ propulsor.kind = "Ok"
                 THEN Ok(ClientPacket(player_id.val, orientation.val, propulsor.val))
                 ELSE Err("serde_json")

JsonFromSliceMyMessage(content) ==
    LET o == ScanObject(content)
    IN  IF ~o.ok THEN Err("serde_json")
        ELSE LET a == JsonUnsigned(FieldValues(o.val, KeyA), 255)
                 b == JsonFloat(FieldValues(o.val, KeyB))
                 c == JsonStr(FieldValues(o.val, KeyC))
             IN  IF a.kind = "Ok" /\ b.kind = "Ok" /\ c.kind = "Ok"
                 THEN Ok(MyMessage(a.val, b.val, c.val))
                 ELSE Err("serde_json")

\* serde_json::from_slice::<T>(&content); no input of the model is JSON read
\* as a ServerPacket
JsonFromSlice(T, content) ==
    CASE T = "ClientPacket" -> JsonFromSliceClient(content)
      [] T = "MyMessage" -> JsonFromSliceMyMessage(content)

-----------------------------------------------------------------------------
(* PacketProtocol::serialize and PacketProtocol::deserialize *)

Zero(data) == [tag |-> "Zero", data |-> data]
Json(data) == [tag |-> "Json", data |-> data]

\* the header written protocol first
EnvelopeProtocolFirst(id, protocol, content) ==
    << protocol >> \o u32_to_be_bytes(id) \o u32_to_be_bytes(Len(content)) \o content

\* id, protocol, content.len() as u32, content
Envelope(id, protocol, content) ==
    u32_to_be_bytes(id) \o << protocol >> \o u32_to_be_bytes(Len(content)) \o content

\* neither serializer fails on a value of the model's payload types
Serialize(packet) ==
    CASE packet.tag = "Raw" -> Ok(Envelope(packet.id, packet.protocol, packet.content))
      [] packet.tag = "Zero" ->
            Ok(Envelope(PacketId(packet.data.type), ZERO_PROTOCOL_ID,
                        BincodeSerialize(packet.data)))
      [] packet.tag = "Json" ->
            Ok(Envelope(PacketId(packet.data.type), JSON_PROTOCOL_ID,
                        JsonToString(packet.data)))

\* deserialize matching on the protocol before it compares the ids
DeserializeProtocolFirst(T, packet) ==
    IF packet.tag = "Raw"
    THEN IF packet.protocol \notin {ZERO_PROTOCOL_ID, JSON_PROTOCOL_ID}
         THEN Err("Unknown protocol")
         ELSE IF packet.id # PacketId(T) THEN Err("Id mismatch")
         ELSE IF packet.protocol = ZERO_PROTOCOL_ID
              THEN BincodeDeserialize(T, packet.content)
         ELSE JsonFromSlice(T, packet.content)
    ELSE Ok(packet.data)

\* deserialize with every protocol other than 0 read as JSON
DeserializeDefaultsToJson(T, packet) ==
    IF packet.tag = "Raw"
    THEN IF packet.id # PacketId(T) THEN Err("Id mismatch")
         ELSE IF packet.protocol = ZERO_PROTOCOL_ID
              THEN BincodeDeserialize(T, packet.content)
         ELSE JsonFromSlice(T, packet.content)
    ELSE Ok(packet.data)

Deserialize(T, packet) ==
    IF packet.tag = "Raw"
    THEN IF packet.id # PacketId(T) THEN Err("Id mismatch")
         ELSE IF packet.protocol = ZERO_PROTOCOL_ID
              THEN BincodeDeserialize(T, packet.content)
         ELSE IF packet.protocol = JSON_PROTOCOL_ID
              THEN JsonFromSlice(T, packet.content)
         ELSE Err("Unknown protocol")
    ELSE Ok(packet.data)

-----------------------------------------------------------------------------
(* PacketBuf *)

PacketBufNew == [buf |-> <<>>, state |-> "Header"]

\* the parts of the state a specification does not use
ReassemblerIdle ==
    /\ envs = <<>> /\ stream = <<>> /\ pos = 0
    /\ buf = PacketBufNew.buf /\ state = PacketBufNew.state
    /\ emitted = <<>> /\ last = "Init" /\ sawEmpty = FALSE /\ bytewise = TRUE
CodecIdle ==
    /\ cin = NoValue /\ cwire = NoResult /\ craw = NoResult /\ cout = NoResult
    /\ cback = NoResult /\ cstage = "idle"
ConnsIdle == conns = <<>>
GameIdle ==
    /\ ships = <<>> /\ players = <<>> /\ ticks = 0 /\ sent = <<>> /\ gameLast = "Init"

\* The Content arm with self.buf.clear() in place of the drain
ProcessContentClears(b) ==
    IF Len(b) < 9
    THEN [buf |-> b, state |-> "Content", ret |-> Panic]
    ELSE LET packet_length == HEADER_LEN + u32_from_be_bytes(Slice(b, 5, 9))
         IN  IF Len(b) < packet_length
             THEN [buf |-> b, state |-> "Content", ret |-> Err("None")]
             ELSE LET r == TryFrom(Slice(b, 0, packet_length))
                  IN  [buf |-> <<>>, state |-> "Content",
                       ret |-> IF r.kind = "Ok" THEN r ELSE Panic]

\* The Content arm with `self.buf.len() <= packet_length` for the length test
ProcessContentOffByOne(b) ==
    IF Len(b) < 9
    THEN [buf |-> b, state |-> "Content", ret |-> Panic]
    ELSE LET packet_length == HEADER_LEN + u32_from_be_bytes(Slice(b, 5, 9))
         IN  IF Len(b) <= packet_length
             THEN [buf |-> b, state |-> "Content", ret |-> Err("None")]
             ELSE LET r == TryFrom(Slice(b, 0, packet_length))
                  IN  [buf |-> Slice(b, packet_length, Len(b)), state |-> "Content",
                       ret |-> IF r.kind = "Ok" THEN r ELSE Panic]

\* The Content arm of process on the buffer b (the chunk already appended).
ProcessContent(b) ==
    IF Len(b) < 9
    THEN [buf |-> b, state |-> "Content", ret |-> Panic]         \* self.buf[5..9]
    ELSE LET content_length == u32_from_be_bytes(Slice(b, 5, 9))
             packet_length == HEADER_LEN + content_length
         IN  IF Len(b) < packet_length
             THEN [buf |-> b, state |-> "Content", ret |-> Err("None")]
             ELSE LET packet_bytes == Slice(b, 0, packet_length)
                      rest == Slice(b, packet_length, Len(b))
                      r == TryFrom(packet_bytes)
                  IN  [buf |-> rest, state |-> "Content",
                       ret |-> IF r.kind = "Ok" THEN r ELSE Panic]   \* unwrap

\* process with the Header arm returning None until the whole header has
\* arrived and never looking at the content in the same call
ProcessHeaderOnly(pb, bytes) ==
    LET b == pb.buf \o bytes
    IN  IF pb.state = "Header"
        THEN [buf |-> b, state |-> IF Len(b) < HEADER_LEN THEN "Header" ELSE "Content",
              ret |-> Err("None")]
        ELSE ProcessContent(b)

\* process(bytes): ret is Ok(envelope) for Some, Err("None") for None, Panic.
\* The Header arm sets the state and calls process(&[]), which appends nothing
\* and runs the Content arm.
Process(pb, bytes) ==
    LET b == pb.buf \o bytes
    IN  IF pb.state = "Header"
        THEN IF Len(b) < HEADER_LEN
             THEN [buf |-> b, state |-> "Header", ret |-> Err("None")]
             ELSE ProcessContent(b)
        ELSE ProcessContent(b)

-----------------------------------------------------------------------------
(* One connection: the peer's envelopes arrive as chunks of any size *)

TypeIds == {0, 1}
\* a content of n bytes, all different: 13, 26, 39, ...
ContentOf(n) == [i \in 1..n |-> (13 * i) % 256]
Envelopes ==
    { Raw(id, ZERO_PROTOCOL_ID, ContentOf(n)) : id \in TypeIds, n \in 0..MaxContent }

RECURSIVE Wire(_)
Wire(es) == IF es = <<>> THEN <<>> ELSE Serialize(Head(es)).val \o Wire(Tail(es))

Init ==
    /\ envs \in SeqsUpTo(Envelopes, MaxEnvelopes)
    /\ stream = Wire(envs)
    /\ pos = 0
    /\ buf = PacketBufNew.buf
    /\ state = PacketBufNew.state
    /\ emitted = <<>>
    /\ last = "Init"
    /\ sawEmpty = FALSE
    /\ bytewise = TRUE
    /\ CodecIdle /\ ConnsIdle /\ GameIdle

Call(chunk) ==
    LET r == Process([buf |-> buf, state |-> state], chunk)
    IN  /\ buf' = r.buf
        /\ state' = r.state
        /\ emitted' = IF r.ret.kind = "Ok" THEN Append(emitted, r.ret.val) ELSE emitted
        /\ last' = CASE r.ret.kind = "Ok" -> "Some"
                     [] r.ret.kind = "Err" -> "None"
                     [] OTHER -> "Panic"

\* a read of n >= 1 bytes
Read ==
    /\ last # "Panic"
    /\ \E n \in 1..(Len(stream) - pos) :
          /\ Call(SubSeq(stream, pos + 1, pos + n))
          /\ pos' = pos + n
          /\ bytewise' = (bytewise /\ n = 1)
    /\ UNCHANGED <<envs, stream, sawEmpty>>
    /\ UNCHANGED <<codec, conns, game>>

\* a zero-length read
ReadEmpty ==
    /\ last # "Panic"
    /\ Call(<<>>)
    /\ sawEmpty' = TRUE
    /\ bytewise' = FALSE
    /\ UNCHANGED <<envs, stream, pos>>
    /\ UNCHANGED <<codec, conns, game>>

Next == Read \/ ReadEmpty

Spec == Init /\ [][Next]_vars

-----------------------------------------------------------------------------
(* The codec alone: a packet is serialized, parsed back and deserialized,   *)
(* or a received byte slice is parsed and deserialized into a type T.       *)

U32Samples == {0, 1, 2147483647}
OrientationSamples == {0, 5, 65536}
U8Samples == {0, 13, 255}
Strings == { <<>>, <<82, 117, 115, 116, 32, 114, 111, 99, 107, 115, 32, 33, 33>>,
             <<97, 34, 92>> }

ClientPackets ==
    { ClientPacket(p, o, m) : p \in U32Samples, o \in OrientationSamples, m \in U8Samples }
MyMessages ==
    { MyMessage(a, b, c) : a \in {10, 255}, b \in FiniteFloats \cup NonFiniteFloats,
                           c \in Strings }

ServerPackets ==
    { ServerPacket(1, Vector(x, <<63, 128, 0, 0>>), Vector(<<64, 163, 231, 109>>, x), o, d, 13, h) :
          x \in { <<0, 0, 0, 0>>, <<192, 32, 0, 0>>, <<127, 192, 0, 0>> },
          o \in {0, 5}, d \in {0, 7}, h \in {0, 300} }

\* a ServerPacket is encoded with Zero only
EncodeInputs ==
    { [op |-> "encode", T |-> d.type, packet |-> Zero(d)] :
          d \in ClientPackets \cup MyMessages \cup ServerPackets }
    \cup { [op |-> "encode", T |-> d.type, packet |-> Json(d)] : d \in ClientPackets \cup MyMessages }

\* the content of main's received_bytes, the same one byte short and one byte
\* long, the text of the same packet as serde_json prints it and with its
\* fields reordered, spaced and joined by an unknown one, a MyMessage in both
\* encodings, and a lone brace
SampleContents ==
    { <<>>,
      <<0, 0, 0, 1, 0, 0, 0, 5, 13>>,
      <<0, 0, 0, 1, 0, 0, 0, 5>>,
      <<0, 0, 0, 1, 0, 0, 0, 5, 13, 0>>,
      <<123, 34, 112, 108, 97, 121, 101, 114, 95, 105, 100, 34, 58, 49, 44, 34, 111, 114, 105, 101, 110, 116, 97, 116, 105, 111, 110, 34, 58, 53, 44, 34, 112, 114, 111, 112, 117, 108, 115, 111, 114, 34, 58, 49, 51, 125>>,
      <<123, 32, 34, 112, 114, 111, 112, 117, 108, 115, 111, 114, 34, 32, 58, 32, 49, 51, 44, 32, 34, 120, 34, 58, 110, 117, 108, 108, 44, 32, 34, 111, 114, 105, 101, 110, 116, 97, 116, 105, 111, 110, 34, 58, 53, 44, 34, 112, 108, 97, 121, 101, 114, 95, 105, 100, 34, 58, 49, 125>>,
      <<10, 64, 163, 231, 109, 0, 0, 0, 0, 0, 0, 0, 2, 82, 117>>,
      <<123, 34, 97, 34, 58, 49, 48, 44, 34, 98, 34, 58, 53, 46, 49, 50, 50, 44, 34, 99, 34, 58, 34, 82, 117, 34, 125>>,
      <<123>> }

SampleIds == {0, 1, 123}
SampleProtocols == {0, 1, 2, 255}

\* a 9-byte header declaring `declared` content bytes, then the content
Framed(id, protocol, declared, content) ==
    u32_to_be_bytes(id) \o << protocol >> \o u32_to_be_bytes(declared) \o content

Slices ==
    { Framed(id, protocol, Len(c) + d, c) :
          id \in SampleIds, protocol \in SampleProtocols,
          c \in SampleContents, d \in {0, 1} }
    \cup { Framed(id, protocol, Len(c) - 1, c) :
          id \in SampleIds, protocol \in SampleProtocols,
          c \in SampleContents \ { <<>> } }
    \cup { SubSeq(Framed(0, 0, 9, <<>>), 1, n) : n \in 0..(HEADER_LEN - 1) }

\* Raw envelopes to serialize; what comes back is deserialized as a ClientPacket
RawInputs ==
    { [op |-> "raw", T |-> "ClientPacket", packet |-> Raw(id, protocol, c)] :
          id \in SampleIds, protocol \in SampleProtocols, c \in SampleContents }

\* no slice is decoded into the type ServerPacket under ServerPacket's own id
DecodeInputs ==
    { [op |-> "decode", T |-> tb[1], bytes |-> tb[2]] :
          tb \in { x \in PacketTypes \X Slices :
                     ~(x[1] = "ServerPacket" /\ Len(x[2]) >= 4
                       /\ u32_from_be_bytes(Slice(x[2], 0, 4)) = PacketId(x[1])) } }

CodecInit ==
    /\ cin \in EncodeInputs \cup RawInputs \cup DecodeInputs
    /\ cwire = IF cin.op = "decode" THEN Ok(cin.bytes) ELSE NoResult
    /\ cstage = IF cin.op = "decode" THEN "wire" ELSE "start"
    /\ craw = NoResult
    /\ cout = NoResult
    /\ cback = NoResult
    /\ ReassemblerIdle /\ ConnsIdle /\ GameIdle

\* packet.serialize()
SerializeStep ==
    /\ cstage = "start"
    /\ cwire' = Serialize(cin.packet)
    /\ cstage' = "wire"
    /\ UNCHANGED <<cin, craw, cout, cback>>
    /\ UNCHANGED <<reassembler, conns, game>>

\* PacketProtocol::try_from(bytes)
TryFromStep ==
    /\ cstage = "wire"
    /\ cwire.kind = "Ok"
    /\ craw' = TryFrom(cwire.val)
    /\ cstage' = "raw"
    /\ UNCHANGED <<cin, cwire, cout, cback>>
    /\ UNCHANGED <<reassembler, conns, game>>

\* .deserialize() on the envelope try_from returned
DeserializeStep ==
    /\ cstage = "raw"
    /\ craw.kind = "Ok"
    /\ cout' = Deserialize(cin.T, craw.val)
    /\ cstage' = "done"
    /\ UNCHANGED <<cin, cwire, craw, cback>>
    /\ UNCHANGED <<reassembler, conns, game>>

\* .serialize() on the envelope try_from returned
ReserializeStep ==
    /\ cstage \in {"raw", "done"}
    /\ craw.kind = "Ok"
    /\ cback = NoResult
    /\ cback' = Serialize(craw.val)
    /\ UNCHANGED <<cin, cwire, craw, cout, cstage>>
    /\ UNCHANGED <<reassembler, conns, game>>

CodecNext == SerializeStep \/ TryFromStep \/ DeserializeStep \/ ReserializeStep

CodecSpec == CodecInit /\ [][CodecNext]_vars

-----------------------------------------------------------------------------
(* Properties of the reassembler, checked under Spec *)

\* the buffer b starts with a complete envelope
HasCompleteEnvelope(b) ==
    /\ Len(b) >= 9
    /\ Len(b) >= 9 + u32_from_be_bytes(Slice(b, 5, 9))

\* C1: chunk-invariance.  Once the whole stream of N valid envelopes has been
\* fed in non-empty chunks, however it was split, no call has panicked and the
\* envelopes emitted are the N envelopes that were concatenated, in order.
C1_ChunkInvariance ==
    (pos = Len(stream) /\ ~sawEmpty) => (last # "Panic" /\ emitted = envs)

\* C2: draining.  When process has returned, no complete envelope is left in
\* the accumulation buffer.
C2_Draining ==
    last \in {"None", "Some"} => ~HasCompleteEnvelope(buf)

\* C3: no byte is dropped, duplicated or reordered.  The bytes of the envelopes
\* emitted so far (header and content, in emission order) followed by the
\* accumulation buffer are the bytes of the chunks fed so far.
C3_NoByteLost ==
    Wire(emitted) \o buf = SubSeq(stream, 1, pos)

C3_Witness ==
    /\ last = "Some"
    /\ Len(emitted) = 1
    /\ Len(emitted[1].content) >= 1
    /\ Len(buf) >= 1

\* C4: the framing layer never panics.  No process call on a chunk of the
\* stream, whatever the chunk sizes, reaches an out-of-range slice index or a
\* failing unwrap.
C4_NeverPanics ==
    ~sawEmpty => last # "Panic"

\* C10: zero-length reads are inert.  A process call with an empty chunk
\* returns None and leaves the phase and the accumulation buffer unchanged.
C10_ZeroLengthInert ==
    [][ReadEmpty => (last' = "None" /\ state' = state /\ buf' = buf)]_vars

\* C11: partial-header resilience.  Fed the 9 header bytes of an envelope one
\* byte per call, a fresh PacketBuf emits nothing on calls 1 to 8; on the 9th
\* it emits exactly one envelope, the one sent, if the declared content_length
\* is 0, and nothing otherwise.
C11_PartialHeader ==
    /\ (bytewise /\ pos \in 1..8) => (last = "None" /\ emitted = <<>>)
    /\ (bytewise /\ pos = 9) =>
          IF u32_from_be_bytes(Slice(stream, 5, 9)) = 0
          THEN last = "Some" /\ emitted = << envs[1] >>
          ELSE last = "None" /\ emitted = <<>>

C11_Witness ==
    /\ bytewise /\ pos = 9
    /\ last = "Some"
    /\ Len(emitted) = 1

\* C16: phase reset after emission.  When process has emitted an envelope its
\* bytes are gone from the accumulation buffer and the reassembler is back in
\* the Header phase.
C16_PhaseReset ==
    last = "Some" => (state = "Header" /\ Wire(emitted) \o buf = SubSeq(stream, 1, pos))

\* C18: None means "need more bytes".  When process has returned None the
\* accumulation buffer does not start with a complete envelope, and the call
\* that brings the bytes still missing emits that envelope, the next one sent.
C18_NoneNeedsMore ==
    /\ [](last = "None" => ~HasCompleteEnvelope(buf))
    /\ [][(last = "None" /\ pos' > pos
             /\ HasCompleteEnvelope(buf \o SubSeq(stream, pos + 1, pos')))
          => (/\ last' = "Some"
              /\ Len(emitted') = Len(emitted) + 1
              /\ emitted'[Len(emitted')] = envs[Len(emitted')])]_vars

C18_Witness ==
    /\ bytewise /\ pos = 10
    /\ last = "Some"
    /\ emitted = << envs[1] >>
    /\ Len(envs[1].content) = 1

-----------------------------------------------------------------------------
(* Properties of the codec, checked under CodecSpec *)

Encoding == cstage # "idle" /\ cin.op = "encode"
Decoding == cstage # "idle" /\ cin.op = "decode"

\* main's received_bytes
ReceivedBytes == <<0, 0, 0, 0, 0, 0, 0, 0, 9, 0, 0, 0, 1, 0, 0, 0, 5, 13>>

\* every f32 field of the payload is finite
AllFinite(data) == data.type = "MyMessage" => IsFinite(data.b)

\* serialize, try_from and deserialize of the payload data each succeed, the
\* last with data itself
RoundTrips(data) ==
    /\ cstage \in {"wire", "raw", "done"} => cwire.kind = "Ok"
    /\ cstage \in {"raw", "done"} => craw.kind = "Ok"
    /\ cstage = "done" => cout = Ok(data)

DecodesReceivedBytes ==
    (Decoding /\ cstage = "done" /\ cin.bytes = ReceivedBytes /\ cin.T = "ClientPacket")
        => cout = Ok(ClientPacket(1, 5, 13))

C6_LengthValidation ==
    (cstage \in {"raw", "done"} /\ Len(cwire.val) >= 9) =>
        IF u32_from_be_bytes(Slice(cwire.val, 5, 9)) # Len(cwire.val) - 9
        THEN craw = Err("Length mismatch") /\ cstage = "raw" /\ cout = NoResult
        ELSE craw.kind = "Ok" /\ craw.val.tag = "Raw"

C6_Witness ==
    /\ Decoding /\ cstage = "raw"
    /\ Len(cin.bytes) >= 9
    /\ Len(cin.bytes) > 9 + u32_from_be_bytes(Slice(cin.bytes, 5, 9))
    /\ craw = Err("Length mismatch")

\* C7: type guard.  Deserializing a Raw envelope into T returns the
\* type-mismatch error whenever the envelope's type_id is not T's id (0 for
\* ClientPacket, 1 for ServerPacket, 123 for MyMessage), whatever its
\* encoding selector and content.
C7_TypeGuard ==
    (cstage = "done" /\ craw.val.id # (CASE cin.T = "ClientPacket" -> 0
                                         [] cin.T = "ServerPacket" -> 1
                                         [] cin.T = "MyMessage" -> 123))
        => cout = Err("Id mismatch")

C7_Witness ==
    /\ Decoding /\ cstage = "done"
    /\ cin.T = "ClientPacket"
    /\ craw.val = Raw(1, 0, <<0, 0, 0, 1, 0, 0, 0, 5, 13>>)
    /\ cout = Err("Id mismatch")

\* C8: unknown encoding on decode.  Deserializing a Raw envelope of the
\* expected type whose encoding selector is neither 0 nor 1 returns the
\* unknown-encoding error, whatever the content.
C8_UnknownEncoding ==
    (cstage = "done" /\ craw.val.id = PacketId(cin.T) /\ craw.val.protocol \notin {0, 1})
        => cout = Err("Unknown protocol")

C8_Witness ==
    /\ Decoding /\ cstage = "done"
    /\ cin.T = "ClientPacket"
    /\ craw.val.id = 0
    /\ craw.val.protocol = 255
    /\ Len(craw.val.content) > 9
    /\ cout = Err("Unknown protocol")

\* C9: binary envelope of a client-input record.  serialize(Zero(p)) is 18
\* bytes: type_id 00 00 00 00, selector 00, content_length 00 00 00 09, then
\* player_id and orientation as 4 big-endian bytes each and the thruster mask
\* as 1 byte; {player_id = 1, orientation = 5, propulsor = 0b1101} gives
\* 00 00 00 00 00 00 00 00 09 00 00 00 01 00 00 00 05 0D.
C9_ClientBinaryLayout ==
    (Encoding /\ cstage # "start" /\ cin.packet.tag = "Zero" /\ cin.T = "ClientPacket") =>
        LET p == cin.packet.data
            w == cwire.val
        IN  /\ cwire.kind = "Ok"
            /\ Len(w) = 18
            /\ \A i \in 1..18 : w[i] \in 0..255
            /\ SubSeq(w, 1, 9) = <<0, 0, 0, 0, 0, 0, 0, 0, 9>>
            /\ ((w[10] * 256 + w[11]) * 256 + w[12]) * 256 + w[13] = p.player_id
            /\ ((w[14] * 256 + w[15]) * 256 + w[16]) * 256 + w[17] = p.orientation
            /\ w[18] = p.propulsor
            /\ (p = ClientPacket(1, 5, 13) => w = ReceivedBytes)

C9_Witness ==
    /\ Encoding /\ cstage = "wire"
    /\ cin.packet = Zero(ClientPacket(1, 5, 13))
    /\ cwire = Ok(ReceivedBytes)

C14_UnknownEncodingOnEncode ==
    (cstage \notin {"idle", "start"} /\ cin.op = "raw" /\ cin.packet.protocol \notin {0, 1})
        => cwire.kind = "Err"

\* C17: decode check ordering.  A slice with a length mismatch reports the
\* length error whatever its type_id and selector and is not deserialized; a
\* correctly framed envelope with a wrong type_id and an unknown selector
\* reports the type mismatch; the content is parsed (deserialize returns a
\* payload or a content error) only when length, type_id and selector all pass.
C17_CheckOrdering ==
    /\ (cstage \in {"raw", "done"} /\ Len(cwire.val) >= 9
          /\ u32_from_be_bytes(Slice(cwire.val, 5, 9)) # Len(cwire.val) - 9)
        => (craw = Err("Length mismatch") /\ cout = NoResult)
    /\ (cstage = "done" /\ craw.val.id # PacketId(cin.T) /\ craw.val.protocol \notin {0, 1})
        => cout = Err("Id mismatch")
    /\ (cstage = "done" /\ (cout.kind = "Ok" \/ cout.err \in {"bincode", "serde_json"}))
        => (/\ u32_from_be_bytes(Slice(cwire.val, 5, 9)) = Len(cwire.val) - 9
            /\ craw.val.id = PacketId(cin.T)
            /\ craw.val.protocol \in {0, 1})

C17_Witness ==
    /\ Decoding /\ cstage = "done"
    /\ cin.T = "ClientPacket"
    /\ craw.val.id = 1
    /\ craw.val.protocol = 255
    /\ cout = Err("Id mismatch")

\* C19: envelope-level round trip.  try_from(serialize(Raw)) is the same Raw:
\* same id, protocol and content; and for every slice try_from accepts,
\* serialize of the envelope it returns is the slice, byte for byte.
C19_EnvelopeRoundTrip ==
    /\ (cstage \in {"raw", "done"} /\ cin.op = "raw") => craw = Ok(cin.packet)
    /\ (cstage # "idle" /\ cback # NoResult) => cback = Ok(cwire.val)

C19_Witness ==
    /\ Decoding
    /\ Len(cin.bytes) > 9
    /\ cin.bytes[5] = 255
    /\ cback = Ok(cin.bytes)

-----------------------------------------------------------------------------
(* Two connections, each with its own PacketBuf, fed in any interleaving.   *)
(* A panic ends the calls on the connection it happens on.                  *)

Connections == {1, 2}
ChunkSizes == {0, 1, 9, 10}
ConnStreams ==
    { Wire(<< Raw(0, ZERO_PROTOCOL_ID, <<>>), Raw(1, ZERO_PROTOCOL_ID, ContentOf(1)) >>),
      Wire(<< Raw(1, ZERO_PROTOCOL_ID, ContentOf(1)), Raw(0, ZERO_PROTOCOL_ID, <<>>) >>) }

ConnNew(bytes) ==
    [stream |-> bytes, pos |-> 0, buf |-> PacketBufNew.buf, state |-> PacketBufNew.state,
     emitted |-> <<>>, last |-> "Init", chunks |-> <<>>]

\* one process call on the connection cn with the next n bytes of its stream
ConnStep(cn, n) ==
    LET r == Process([buf |-> cn.buf, state |-> cn.state],
                     SubSeq(cn.stream, cn.pos + 1, cn.pos + n))
    IN  [stream |-> cn.stream, pos |-> cn.pos + n, buf |-> r.buf, state |-> r.state,
         emitted |-> IF r.ret.kind = "Ok" THEN Append(cn.emitted, r.ret.val) ELSE cn.emitted,
         last |-> CASE r.ret.kind = "Ok" -> "Some"
                    [] r.ret.kind = "Err" -> "None"
                    [] OTHER -> "Panic",
         chunks |-> Append(cn.chunks, n)]

\* the call with one accumulation buffer shared by the connections
ConnCallSharedBuf(c, n) ==
    LET after == ConnStep(conns[c], n)
    IN  [d \in Connections |-> IF d = c THEN after ELSE [conns[d] EXCEPT !.buf = after.buf]]

\* process borrows one PacketBuf (&mut self): the call changes connection c only
ConnCall(c, n) == [conns EXCEPT ![c] = ConnStep(conns[c], n)]

ConnInit ==
    /\ conns \in [Connections -> { ConnNew(b) : b \in ConnStreams }]
    /\ ReassemblerIdle /\ CodecIdle /\ GameIdle

ConnRead(c) ==
    /\ conns[c].last # "Panic"
    /\ Len(conns[c].chunks) < MaxCalls
    /\ \E n \in ChunkSizes :
          /\ n <= Len(conns[c].stream) - conns[c].pos
          /\ conns' = ConnCall(c, n)
    /\ UNCHANGED <<reassembler, codec, game>>

ConnNext == \E c \in Connections : ConnRead(c)

ConnSpec == ConnInit /\ [][ConnNext]_vars

\* a fresh PacketBuf fed the chunks of the given sizes, alone
RECURSIVE Replay(_, _)
Replay(cn, sizes) ==
    IF sizes = <<>> THEN cn ELSE Replay(ConnStep(cn, Head(sizes)), Tail(sizes))

-----------------------------------------------------------------------------
(* Game: players and ships, the legacy per-player reads of iterate_game and *)
(* the server packets of send_server_packet.  An f32 is the four big-endian *)
(* bytes of its bit pattern.                                                *)

HEADER_SIZE == 9

Zeros(n) == [i \in 1..n |-> 0]

Min(a, b) == IF a < b THEN a ELSE b

\* i32::to_be_bytes: two's complement
i32_to_be_bytes(n) ==
    IF n >= 0 THEN u32_to_be_bytes(n)
    ELSE LET m == u32_to_be_bytes(-n - 1) IN [i \in 1..4 |-> 255 - m[i]]

\* u64::to_be_bytes of a length
u64_to_be_bytes(n) == <<0, 0, 0, 0>> \o u32_to_be_bytes(n)

\* what a player's stream delivers: a header declaring 2 content bytes, then
\* the content
PlayerStream == <<1, 2, 3, 4, 0, 0, 0, 0, 2, 7, 8>>

\* Game::new_player: the ship
ShipNew(amount) ==
    [id |-> amount, position |-> Vector(Zeros(4), Zeros(4)),
     velocity |-> Vector(Zeros(4), Zeros(4)), orientation |-> Zeros(4), design |-> 0,
     propulsor |-> <<FALSE, FALSE, FALSE, FALSE>>, can_shoot |-> 0, hits |-> 0]

\* PlayerData::new; incoming is what the stream still holds, read the bytes of
\* the current header the stream has delivered
PlayerDataNew ==
    [incoming |-> PlayerStream, read |-> <<>>, ships |-> {}, buffer |-> <<>>,
     remaining_message |-> 0,
     remaining_header |-> HEADER_SIZE, messages_received |-> 0, protocol |-> 0,
     panicked |-> FALSE]

\* stream.read(&mut bytes[0..len]): at most len bytes and at most what the
\* stream holds; want is what the transport has ready
SizeRead(pl, len, want) == Min(want, Min(len, Len(pl.incoming)))

\* the header part of the loop body of iterate_game (lines 161-197)
ReadHeader(pl, want) ==
    IF pl.remaining_header = 0 THEN pl
    ELSE LET size_read == SizeRead(pl, pl.remaining_header, want)
             bytes == SubSeq(pl.incoming, 1, size_read)
                          \o Zeros(pl.remaining_header - size_read)
             took == [pl EXCEPT !.incoming = SubSeq(pl.incoming, size_read + 1, Len(pl.incoming)),
                                !.read = pl.read \o SubSeq(pl.incoming, 1, size_read),
                                !.buffer = pl.buffer \o bytes]
         IN  IF size_read = pl.remaining_header
             \* append has emptied bytes: bytes[4] is out of range
             THEN [took EXCEPT !.panicked = TRUE]
             ELSE [took EXCEPT !.remaining_header = pl.remaining_header - size_read]

\* the message part of the loop body (lines 200-217)
ReadMessage(pl, want) ==
    IF pl.panicked \/ pl.remaining_message = 0 THEN pl
    ELSE LET size_read == SizeRead(pl, pl.remaining_message, want)
             bytes == SubSeq(pl.incoming, 1, size_read)
                          \o Zeros(pl.remaining_message - size_read)
             took == [pl EXCEPT !.incoming = SubSeq(pl.incoming, size_read + 1, Len(pl.incoming)),
                                !.buffer = pl.buffer \o bytes]
         IN  IF size_read = pl.remaining_message
             THEN took
             ELSE [took EXCEPT !.remaining_message = pl.remaining_message - size_read]

IteratePlayer(pl, wants) == ReadMessage(ReadHeader(pl, wants[1]), wants[2])

\* the loop over the players; a panic ends it
RECURSIVE IteratePlayers(_, _, _)
IteratePlayers(ps, wants, i) ==
    IF i > Len(ps) THEN ps
    ELSE LET pl == IteratePlayer(ps[i], wants[i])
             done == [ps EXCEPT ![i] = pl]
         IN  IF pl.panicked THEN done ELSE IteratePlayers(done, wants, i + 1)

\* Game::send_server_binary_message
RECURSIVE SendServerBinaryMessage(_)
SendServerBinaryMessage(ss) ==
    IF ss = <<>> THEN <<>>
    ELSE LET ship == Head(ss)
             prop == (IF ship.propulsor[1] THEN 1 ELSE 0) + (IF ship.propulsor[2] THEN 2 ELSE 0)
                       + (IF ship.propulsor[3] THEN 4 ELSE 0) + (IF ship.propulsor[4] THEN 8 ELSE 0)
         IN  i32_to_be_bytes(ship.id) \o ship.position.x \o ship.position.y
                 \o ship.velocity.x \o ship.velocity.y \o ship.orientation
                 \o << ship.design >> \o << prop >> \o i32_to_be_bytes(ship.hits)
                 \o SendServerBinaryMessage(Tail(ss))

\* Game::send_server_packet: size is a u64 and takes 8 bytes of the packet
SendServerPacket(ss, id, protocol_id) ==
    LET message == IF protocol_id = 0 THEN SendServerBinaryMessage(ss) ELSE <<0, 0, 0, 0>>
    IN  i32_to_be_bytes(id) \o << protocol_id >> \o u64_to_be_bytes(Len(message)) \o message

GameInit ==
    /\ ships = <<>>
    /\ players = <<>>
    /\ ticks = 0
    /\ sent = <<>>
    /\ gameLast = "Init"
    /\ ReassemblerIdle /\ CodecIdle /\ ConnsIdle

NewPlayer ==
    /\ gameLast # "Panic"
    /\ Len(players) < MaxPlayers
    /\ ships' = Append(ships, ShipNew(Len(ships)))
    /\ players' = Append(players, PlayerDataNew)
    /\ gameLast' = "Ok"
    /\ UNCHANGED <<ticks, sent>>
    /\ UNCHANGED <<reassembler, codec, conns>>

IterateGame ==
    /\ gameLast # "Panic"
    /\ ticks < MaxTicks
    /\ \E wants \in [1..Len(players) -> (0..HEADER_SIZE) \X (0..2)] :
          /\ players' = IteratePlayers(players, wants, 1)
          /\ gameLast' = IF \E i \in 1..Len(players) : players'[i].panicked
                         THEN "Panic" ELSE "Ok"
    /\ ticks' = ticks + 1
    /\ UNCHANGED <<ships, sent>>
    /\ UNCHANGED <<reassembler, codec, conns>>

SendPacket ==
    /\ gameLast # "Panic"
    /\ \E id \in {0, 1, -1}, protocol_id \in {0, 1, 5} :
          sent' = SendServerPacket(ships, id, protocol_id)
    /\ gameLast' = "Ok"
    /\ UNCHANGED <<ships, players, ticks>>
    /\ UNCHANGED <<reassembler, codec, conns>>

GameNext == NewPlayer \/ IterateGame \/ SendPacket

GameSpec == GameInit /\ [][GameNext]_vars

\* C12: send-path header invariant.  A packet send_server_packet returns
\* starts with a 9-byte header, type_id (4 bytes) + encoding_selector (1 byte)
\* + content_length (4 bytes, big-endian), and its content_length field is the
\* number of bytes that follow the header.
C12_SendPathHeader ==
    sent # <<>> =>
        /\ Len(sent) >= 9
        /\ u32_from_be_bytes(Slice(sent, 5, 9)) = Len(sent) - 9

\* C20: legacy header tracking.  While a player's header is incomplete,
\* player.buffer holds exactly the header bytes read from the stream, in
\* order, and buffer.len() + remaining_header is HEADER_SIZE.
C20_HeaderTracking ==
    \A i \in 1..Len(players) :
        (~players[i].panicked /\ players[i].remaining_header # 0) =>
            /\ players[i].buffer = players[i].read
            /\ Len(players[i].buffer) + players[i].remaining_header = HEADER_SIZE

====
